---- MODULE Spec2Model ----
(***************************************************************************)
(* Model of the datasets microservice (src/server.js): the in-memory       *)
(* dataset registry, the statistics functions (mean, median, stddev,       *)
(* movingAverage, pearson), the date-range filter and the HTTP handlers    *)
(* built on them.                                                          *)
(*                                                                         *)
(* Numbers.  A JavaScript value is a tagged record.  A finite number is    *)
(* the exact rational n/d in lowest terms (d > 0); NaN, undefined and null *)
(* are separate tags.  The inputs of the model are small integers, for     *)
(* which IEEE-754 double arithmetic agrees with the exact result after     *)
(* toFixed(6) (no sum, product or quotient of the model comes within       *)
(* 1e-9 of a rounding tie), so rationals stand for doubles here.  Double   *)
(* overflow and underflow are outside the model's bounds.                  *)
(***************************************************************************)
EXTENDS Integers, Sequences, FiniteSets, TLC

VARIABLES firebaseAuthEnabled, datasets, pending, resp, call, ret, frame

vars == <<firebaseAuthEnabled, datasets, pending, resp, call, ret, frame>>

-----------------------------------------------------------------------------
(* Bounds of the model *)

\* largest value of a generated or supplied observation
MaxVal == 1
\* most records of the dataset in the single-dataset specification
MaxLen == 3
\* longest array handed to movingAverage or filterByDateRange on its own
ArrLen == 4
\* largest window size of a request
MaxWin == 3
\* records per synthetic dataset (90 in the program) and the spread of their noise
GenDays == 2
GenNoise == 1

\* digits kept by toFixed(6) in the responses, and by toFixed(3) in the insight
Digits == 6
InsightDigits == 3
\* milliseconds per calendar day (time value of an ISO date at midnight UTC)
MsPerDay == 86400 * 1000

-----------------------------------------------------------------------------
(* JavaScript values *)

Undefined == [t |-> "undefined"]
Null == [t |-> "null"]
NaN == [t |-> "NaN"]
\* the completion of an expression that throws a TypeError
Throw == [t |-> "throw"]

Abs(k) == IF k < 0 THEN -k ELSE k
Sgn(k) == IF k < 0 THEN -1 ELSE IF k = 0 THEN 0 ELSE 1

RECURSIVE Gcd(_, _)
Gcd(a, b) == IF b = 0 THEN a ELSE Gcd(b, a % b)

\* the number n/d, d > 0, in lowest terms
Rat(n, d) ==
  LET g == Gcd(Abs(n), d)
  IN  IF n = 0 THEN [t |-> "num", n |-> 0, d |-> 1]
      ELSE [t |-> "num", n |-> n \div g, d |-> d \div g]

Num(k) == Rat(k, 1)

Str(x) == [t |-> "str", s |-> x]
\* an array with the elements of the sequence e
Arr(e) == [t |-> "array", e |-> e]
\* a string of the form YYYY-MM-DD naming calendar day `day`
DateStr(day) == [t |-> "date", day |-> day]

\* ToBoolean
Truthy(v) ==
  /\ v.t \notin {"undefined", "null", "NaN"}
  /\ ~(v.t = "str" /\ v.s = "")
  /\ ~(v.t = "num" /\ v.n = 0)

\* a || b
OrElse(a, b) == IF Truthy(a) THEN a ELSE b

\* JSON.stringify of a number: NaN is written as null
Json(v) == IF v.t = "NaN" THEN Null ELSE v

\* ToNumber of the values a record field can hold: null is 0, undefined is NaN
ToNumber(v) ==
  IF v.t = "num" THEN v
  ELSE IF v.t = "null" THEN Num(0)
  ELSE NaN

\* x + y, x - y, x * y and x / k on numbers; NaN is absorbing
Add(x, y) ==
  LET a == ToNumber(x)  b == ToNumber(y)
  IN  IF a.t = "NaN" \/ b.t = "NaN" THEN NaN
      ELSE Rat(a.n * b.d + b.n * a.d, a.d * b.d)

Sub(x, y) ==
  LET a == ToNumber(x)  b == ToNumber(y)
  IN  IF a.t = "NaN" \/ b.t = "NaN" THEN NaN
      ELSE Rat(a.n * b.d - b.n * a.d, a.d * b.d)

Mul(x, y) ==
  LET a == ToNumber(x)  b == ToNumber(y)
  IN  IF a.t = "NaN" \/ b.t = "NaN" THEN NaN
      ELSE Rat(a.n * b.n, a.d * b.d)

DivInt(x, k) ==
  LET a == ToNumber(x)
  IN  IF a.t = "NaN" THEN NaN ELSE Rat(a.n, a.d * k)

\* x < y and x <= y on numbers; every comparison with NaN is false
Lt(x, y) == x.t = "num" /\ y.t = "num" /\ x.n * y.d < y.n * x.d
Le(x, y) == x.t = "num" /\ y.t = "num" /\ x.n * y.d <= y.n * x.d

-----------------------------------------------------------------------------------------------------------------------------------------------------
(* Rounding a square root to f decimals exactly.  The integers involved     *)
(* pass 32 bits, so a natural below 10^18 is kept as the pair <<H, L>> of   *)
(* its upper and lower nine decimal digits.                                 *)

Base == 10 ^ 3

\* s * s for 0 <= s < 10^9, by base-1000 limbs
Square(s) ==
  LET s0 == s % Base
      s1 == (s \div Base) % Base
      s2 == s \div (Base * Base)
      x0 == s0 * s0
      x1 == 2 * s0 * s1 + (x0 \div Base)
      x2 == 2 * s0 * s2 + s1 * s1 + (x1 \div Base)
      x3 == 2 * s1 * s2 + (x2 \div Base)
      x4 == s2 * s2 + (x3 \div Base)
  IN  <<x4 * Base + (x3 % Base),
        (x2 % Base) * Base * Base + (x1 % Base) * Base + (x0 % Base)>>

PairLeq(x, y) == x[1] < y[1] \/ (x[1] = y[1] /\ x[2] <= y[2])

RECURSIVE ShiftDivide(_, _, _, _)
\* floor(t * 1000^k + 1000^k * rem / b) for the pair t, with 0 <= rem < b
ShiftDivide(t, rem, b, k) ==
  IF k = 0 THEN t
  ELSE ShiftDivide(<<t[1] * Base + (t[2] \div (Base * Base)),
                     (t[2] % (Base * Base)) * Base + ((rem * Base) \div b)>>,
                   (rem * Base) % b, b, k - 1)

RECURSIVE SqrtSearch(_, _, _)
\* the largest s in lo..hi with s * s <= t, given that lo * lo <= t
SqrtSearch(lo, hi, t) ==
  IF lo = hi THEN lo
  ELSE LET mid == (lo + hi + 1) \div 2
       IN  IF PairLeq(Square(mid), t) THEN SqrtSearch(mid, hi, t)
           ELSE SqrtSearch(lo, mid - 1, t)

\* round(10^f * sqrt(a / b)) for a >= 0, b > 0 and f a multiple of 3, ties
\* upwards: floor((floor(sqrt(4 * 10^(2f) * a / b)) + 1) / 2)
RoundSqrt(a, b, f) ==
  LET t == ShiftDivide(<<0, (4 * a) \div b>>, (4 * a) % b, b, 2 * (f \div 3))
  IN  (SqrtSearch(0, 2 * (10 ^ f) * (a \div b + 1), t) + 1) \div 2

-----
(* Number.prototype.toFixed and the values built on square roots *)

\* round(10^f * n / d) for n >= 0, d > 0, ties upwards
RoundRat(n, d, f) ==
  IF (10 ^ f) % d = 0 THEN n * ((10 ^ f) \div d)
  ELSE (n \div d) * (10 ^ f) + (2 * (n % d) * (10 ^ f) + d) \div (2 * d)

\* s * sqrt(a / b): the exact value of a Math.sqrt result or of a quotient by one
Surd(s, a, b) ==
  IF a = 0 \/ s = 0 THEN [t |-> "num", n |-> 0, d |-> 1]
  ELSE LET q == Rat(a, b) IN [t |-> "surd", s |-> s, a |-> q.n, b |-> q.d]

\* x.toFixed(f): the decimal string with f digits, kept as k / 10^f; "NaN" for
\* NaN; a TypeError when x is null or undefined
ToFixed(x, f) ==
  IF x.t = "num" THEN [t |-> "dec", k |-> Sgn(x.n) * RoundRat(Abs(x.n), x.d, f), f |-> f]
  ELSE IF x.t = "surd" THEN [t |-> "dec", k |-> x.s * RoundSqrt(x.a, x.b, f), f |-> f]
  ELSE IF x.t = "NaN" THEN [t |-> "str", s |-> "NaN"]
  ELSE Throw

\* Number(s) of a string produced by toFixed
NumberOf(s) ==
  IF s.t = "dec" THEN Rat(s.k, 10 ^ s.f)
  ELSE IF s.t = "throw" THEN Throw
  ELSE NaN

\* Number(x.toFixed(6))
NumberToFixed(x) == NumberOf(ToFixed(x, Digits))

\* x >= p/q and x <= p/q for a number, surd or NaN x (q > 0)
GeConst(x, p, q) ==
  IF x.t = "num" THEN x.n * q >= p * x.d
  ELSE IF x.t = "surd"
    THEN IF p > 0 THEN x.s > 0 /\ x.a * q * q >= p * p * x.b
         ELSE x.s > 0 \/ x.a * q * q <= p * p * x.b
  ELSE FALSE

LeConst(x, p, q) ==
  IF x.t = "num" THEN x.n * q <= p * x.d
  ELSE IF x.t = "surd"
    THEN IF p < 0 THEN x.s < 0 /\ x.a * q * q >= p * p * x.b
         ELSE x.s < 0 \/ x.a * q * q <= p * p * x.b
  ELSE FALSE

-----------------------------------------------------------------------------
(* Utility stats functions, src/server.js:105-153 *)

RECURSIVE Reduce(_, _)
\* arr.reduce((a, b) => a + b, acc)
Reduce(arr, acc) ==
  IF arr = <<>> THEN acc ELSE Reduce(Tail(arr), Add(acc, Head(arr)))

mean(arr) ==
  IF Len(arr) = 0 THEN Null
  ELSE DivInt(Reduce(arr, Num(0)), Len(arr))

\* a plausible slip: the middle of the array as given, without the sort
medianUnsorted(arr) ==
  IF Len(arr) = 0 THEN Null
  ELSE LET mid == Len(arr) \div 2
       IN  IF Len(arr) % 2 = 0 THEN DivInt(Add(arr[mid], arr[mid + 1]), 2)
           ELSE arr[mid + 1]

median(arr) ==
  IF Len(arr) = 0 THEN Null
  ELSE LET a == SortSeq(arr, LAMBDA x, y : Lt(x, y))
           mid == Len(a) \div 2      \* 0-based index Math.floor(a.length / 2)
       IN  IF Len(a) % 2 = 0 THEN DivInt(Add(a[mid], a[mid + 1]), 2)
           ELSE a[mid + 1]

RECURSIVE SumSq(_, _, _)
\* arr.reduce((acc, v) => acc + (v - m) * (v - m), acc)
SumSq(arr, m, acc) ==
  IF arr = <<>> THEN acc
  ELSE SumSq(Tail(arr), m, Add(acc, Mul(Sub(Head(arr), m), Sub(Head(arr), m))))

stddev(arr) ==
  IF Len(arr) = 0 THEN Null
  ELSE LET m == mean(arr)
           v == DivInt(SumSq(arr, m, Num(0)), Len(arr))
       IN  IF v.t = "NaN" THEN NaN ELSE Surd(1, v.n, v.d)

Max(a, b) == IF a > b THEN a ELSE b
Min(a, b) == IF a < b THEN a ELSE b

\* arr.slice(start, end) with 0-based start and exclusive end
Slice(arr, start, end) == SubSeq(arr, start + 1, Min(end, Len(arr)))

\* a plausible slip: the window never slides, every average is cumulative
WindowSliceCumulative(arr, i, windowSize) == Slice(arr, 0, i + 1)

\* the slice of iteration i (0-based); a NaN window makes start NaN, which
\* slice reads as 0
WindowSlice(arr, i, windowSize) ==
  IF windowSize.t = "num"
  THEN Slice(arr, Max(0, i - windowSize.n + 1), i + 1)
  ELSE Slice(arr, 0, i + 1)

movingAverage(arr, windowSize) ==
  LET out == [k \in 1..Len(arr) |->
                NumberToFixed(mean(WindowSlice(arr, k - 1, windowSize)))]
  IN  IF \E k \in 1..Len(arr) : out[k].t = "throw" THEN Throw ELSE [t |-> "array", e |-> out]

RECURSIVE SumProd(_, _, _, _, _)
\* the loop of pearson: the sum over i of (x[i] - mx) * (y[i] - my)
SumProd(x, y, mx, my, i) ==
  IF i > Len(x) THEN Num(0)
  ELSE Add(Mul(Sub(x[i], mx), Sub(y[i], my)), SumProd(x, y, mx, my, i + 1))

\* a plausible slip: no guard on a zero denominator, 0 / 0 is NaN
pearsonUnguarded(x, y) ==
  IF Len(x) # Len(y) \/ Len(x) = 0 THEN Null
  ELSE LET mx == mean(x)
           my == mean(y)
           num == SumProd(x, y, mx, my, 1)
           dd == Mul(SumProd(x, x, mx, mx, 1), SumProd(y, y, my, my, 1))
       IN  IF num.t = "NaN" \/ dd.t = "NaN" \/ dd.n = 0 THEN NaN
           ELSE Surd(Sgn(num.n), num.n * num.n * dd.d, num.d * num.d * dd.n)

pearson(x, y) ==
  IF Len(x) # Len(y) \/ Len(x) = 0 THEN Null
  ELSE LET mx == mean(x)
           my == mean(y)
           num == SumProd(x, y, mx, my, 1)
           denx == SumProd(x, x, mx, mx, 1)
           deny == SumProd(y, y, my, my, 1)
           dd == Mul(denx, deny)
       IN  IF num.t = "NaN" \/ dd.t = "NaN" THEN NaN
           ELSE IF dd.n = 0 THEN Num(0)                  \* denom === 0
           ELSE Surd(Sgn(num.n), num.n * num.n * dd.d, num.d * num.d * dd.n)

-----------------------------------------------------------------------------
(* Helper: filter by date range, src/server.js:156-166 *)

\* the time value of new Date(str): milliseconds since the epoch for a date
\* string (midnight UTC), NaN (Invalid Date) for any other string
NewDate(str) == IF str.t = "date" THEN Num(str.day * MsPerDay) ELSE NaN

\* a plausible slip: the bounds themselves are left out (<= for <, >= for >)
filterByDateRangeExclusive(series, from, to) ==
  IF ~Truthy(from) /\ ~Truthy(to) THEN series
  ELSE LET fromDate == IF Truthy(from) THEN NewDate(from) ELSE Null
           toDate == IF Truthy(to) THEN NewDate(to) ELSE Null
           Keep(s) ==
             LET d == NewDate(s.date)
             IN  /\ ~(fromDate.t # "null" /\ Le(d, fromDate))
                 /\ ~(toDate.t # "null" /\ Le(toDate, d))
       IN  SelectSeq(series, Keep)

filterByDateRange(series, from, to) ==
  IF ~Truthy(from) /\ ~Truthy(to) THEN series
  ELSE LET fromDate == IF Truthy(from) THEN NewDate(from) ELSE Null
           toDate == IF Truthy(to) THEN NewDate(to) ELSE Null
           Keep(s) ==
             LET d == NewDate(s.date)        \* new Date(s.date + "T00:00:00Z")
             IN  /\ ~(fromDate.t # "null" /\ Lt(d, fromDate))
                 /\ ~(toDate.t # "null" /\ Lt(toDate, d))
       IN  SelectSeq(series, Keep)

-----------------------------------------------------------------------------
(* Records and the dataset registry, src/server.js:58-102 *)

\* s[param]: the record's value for the field, undefined when it has none
Field(s, param) ==
  IF param.t = "str" /\ param.s \in DOMAIN s.v THEN s.v[param.s] ELSE Undefined

\* series.map((s) => s[param])
Extract(series, param) == [i \in 1..Len(series) |-> Field(series[i], param)]

\* arr.filter((v) => v !== null && v !== undefined)
Valid(arr) == SelectSeq(arr, LAMBDA v : v.t # "null" /\ v.t # "undefined")

\* parameters.includes(param)
Includes(parameters, param) == \E i \in 1..Len(parameters) : parameters[i] = param

\* datasets[id]
Lookup(reg, id) == IF id \in DOMAIN reg THEN reg[id] ELSE Undefined

MarineParams == <<"temperature", "wind_speed", "wave_height">>
ChemParams == <<"salinity", "pH", "dissolved_oxygen">>

\* the level around which each synthetic parameter varies
GenBase(param) ==
  CASE param = "temperature" -> 24
    [] param = "wind_speed" -> 5
    [] param = "wave_height" -> 1
    [] param = "salinity" -> 35
    [] param = "pH" -> 8
    [] param = "dissolved_oxygen" -> 6

\* generateTimeSeries(type, days): one record per day, days ending today.  The
\* sinusoid and Math.random() terms are one offset `noise` drawn per series
\* (the per-record draws of the program are narrowed to the series that are
\* level; the single-dataset specifications below vary every record).
generateTimeSeries(params, days, noise) ==
  [i \in 1..days |->
     [date |-> DateStr(i),
      v |-> [p \in {params[k] : k \in 1..Len(params)} |-> Num(GenBase(p) + noise)]]]

Noises == 0..GenNoise

MarineDataset(noise) ==
  [id |-> Str("marine_weather"), name |-> Str("Marine Weather (synthetic)"),
   description |-> Str("Synthetic sea surface temperature, wind and waves for demo."),
   parameters |-> [k \in 1..3 |-> Str(MarineParams[k])],
   data |-> generateTimeSeries(MarineParams, GenDays, noise)]

ChemDataset(noise) ==
  [id |-> Str("chemical_oceanographic"), name |-> Str("Chemical Oceanographic (synthetic)"),
   description |-> Str("Synthetic salinity, pH and dissolved oxygen for demo."),
   parameters |-> [k \in 1..3 |-> Str(ChemParams[k])],
   data |-> generateTimeSeries(ChemParams, GenDays, noise)]

-----------------------------------------------------------------------------
(* Responses.  A response is the status and the body handed to res.json     *)
(* (numbers as JSON writes them); `ran` lists the engine stages the handler *)
(* went through for the request; an uncaught TypeError ends in Express's    *)
(* default error handler, status 500.                                       *)

NoResponse == [status |-> 0, op |-> "none", body |-> Undefined, ran |-> {}, req |-> Undefined]

\* the response r, labelled with the request it answers
For(req, r) ==
  [status |-> r.status, op |-> r.op, body |-> r.body, ran |-> r.ran, req |-> req]

Reply(op, status, body, ran) == [status |-> status, op |-> op, body |-> body, ran |-> ran]

Rejected(op, status, error) == Reply(op, status, [error |-> error], {})

Crash(op, ran) == Reply(op, 500, [error |-> "TypeError"], ran)

-----------------------------------------------------------------------------
(* Routes, src/server.js:174-304 *)

\* GET /api/datasets
ListMeta(d) ==
  IF Len(d.data) = 0 THEN Throw             \* d.data[0].date of undefined
  ELSE [id |-> d.id, name |-> d.name, description |-> d.description,
        parameters |-> d.parameters,
        range |-> [start |-> d.data[1].date, end |-> d.data[Len(d.data)].date]]

ListResponse(reg) ==
  LET list == [k \in DOMAIN reg |-> ListMeta(reg[k])]
  IN  IF \E k \in DOMAIN reg : "t" \in DOMAIN list[k] THEN Crash("list", {})
      ELSE Reply("list", 200, [datasets |-> list], {})

\* GET /api/datasets/:id/data
DataResponse(reg, id, param, from, to) ==
  LET ds == Lookup(reg, id) IN
  IF "t" \in DOMAIN ds THEN Rejected("data", 404, "Dataset not found")
  ELSE LET series == filterByDateRange(ds.data, from, to)
           mapped == [i \in 1..Len(series) |->
                        [date |-> series[i].date,
                         value |-> IF Field(series[i], param).t # "undefined"
                                   THEN Field(series[i], param) ELSE Null]]
       IN  IF Truthy(param)
           THEN Reply("data", 200, [id |-> ds.id, name |-> ds.name, param |-> param,
                                    data |-> mapped], {"filter", "extract"})
           ELSE Reply("data", 200, [id |-> ds.id, name |-> ds.name, param |-> Null,
                                    data |-> series], {"filter"})

RECURSIVE Extreme(_, _, _)
\* Math.min(...values) / Math.max(...values) for a non-empty array of numbers
Extreme(values, acc, smaller) ==
  IF values = <<>> THEN acc
  ELSE Extreme(Tail(values),
               IF (smaller /\ Lt(Head(values), acc)) \/ (~smaller /\ Lt(acc, Head(values)))
               THEN Head(values) ELSE acc,
               smaller)

MathMin(values) == Extreme(Tail(values), Head(values), TRUE)
MathMax(values) == Extreme(Tail(values), Head(values), FALSE)

\* Math.abs(v - m) > 2 * sdev, with sdev the square root of a rational or 0
IsAnomaly(v, m, sdev) ==
  LET dev == Sub(v, m)
      sq == Mul(dev, dev)
  IN  IF sdev.t = "surd" THEN sq.n * sdev.b > 4 * sdev.a * sq.d
      ELSE sdev.t = "num" /\ sq.t = "num" /\ sq.n > 0

\* GET /api/datasets/:id/summary
SummaryResponse(reg, id, param, from, to) ==
  LET ds == Lookup(reg, id) IN
  IF "t" \in DOMAIN ds THEN Rejected("summary", 404, "Dataset not found")
  ELSE IF ~Truthy(param) THEN Rejected("summary", 400, "param query required")
  ELSE IF ~Includes(ds.parameters, param) THEN Rejected("summary", 400, "Parameter not available")
  ELSE LET series == filterByDateRange(ds.data, from, to)
           values == Valid(Extract(series, param))
       IN  IF Len(values) = 0
           THEN Reply("summary", 400, [error |-> "No data in range"], {"filter", "extract"})
           ELSE LET m == mean(values)
                    med == median(values)
                    sdev == stddev(values)
                    min == MathMin(values)
                    max == MathMax(values)
                    anomalies == Len(SelectSeq(values, LAMBDA v : IsAnomaly(v, m, sdev)))
                    insight == [param |-> param, mean |-> ToFixed(m, InsightDigits),
                                median |-> ToFixed(med, InsightDigits),
                                std |-> ToFixed(sdev, InsightDigits), anomalies |-> anomalies]
                IN  Reply("summary", 200,
                          [id |-> ds.id, param |-> param,
                           summary |-> [mean |-> Json(NumberToFixed(m)),
                                        median |-> Json(NumberToFixed(med)),
                                        stddev |-> Json(NumberToFixed(sdev)),
                                        min |-> Json(NumberToFixed(min)),
                                        max |-> Json(NumberToFixed(max)),
                                        count |-> Len(values),
                                        anomalies |-> anomalies],
                           insight |-> insight],
                          {"filter", "extract", "stats"})

\* parseInt(req.query.window || "7", 10)
DefaultWindow == 7
ParseWindow(window) ==
  LET str == OrElse(window, [t |-> "digits", k |-> DefaultWindow])
  IN  IF str.t = "digits" THEN Num(str.k) ELSE NaN

\* GET /api/datasets/:id/trends
TrendsResponse(reg, id, param, window, from, to) ==
  LET ds == Lookup(reg, id)
      win == ParseWindow(window) IN
  IF "t" \in DOMAIN ds THEN Rejected("trends", 404, "Dataset not found")
  ELSE IF ~Truthy(param) THEN Rejected("trends", 400, "param query required")
  ELSE IF ~Includes(ds.parameters, param) THEN Rejected("trends", 400, "Parameter not available")
  ELSE LET series == filterByDateRange(ds.data, from, to)
           values == Extract(series, param)
           ma == movingAverage(values, win)
       IN  IF ma.t = "throw" THEN Crash("trends", {"filter", "extract", "stats"})
           ELSE Reply("trends", 200,
                      [id |-> ds.id, param |-> param, window |-> Json(win),
                       data |-> [i \in 1..Len(series) |->
                                   [date |-> series[i].date,
                                    value |-> values[i],
                                    moving_average |-> Json(NumberToFixed(ma.e[i]))]]],
                      {"filter", "extract", "stats"})

\* a plausible slip: the moderate-negative test ahead of the strong-negative one
InterpretationShadowed(r) ==
  IF GeConst(r, 7, 10) THEN "Strong positive correlation"
  ELSE IF GeConst(r, 4, 10) THEN "Moderate positive correlation"
  ELSE IF LeConst(r, -4, 10) THEN "Moderate negative correlation"
  ELSE IF LeConst(r, -7, 10) THEN "Strong negative correlation"
  ELSE "Weak or no correlation"

\* the if / else-if chain of the correlation route
Interpretation(r) ==
  IF GeConst(r, 7, 10) THEN "Strong positive correlation"
  ELSE IF GeConst(r, 4, 10) THEN "Moderate positive correlation"
  ELSE IF LeConst(r, -7, 10) THEN "Strong negative correlation"
  ELSE IF LeConst(r, -4, 10) THEN "Moderate negative correlation"
  ELSE "Weak or no correlation"

\* GET /api/datasets/:id/correlation
CorrelationResponse(reg, id, p1, p2, from, to) ==
  LET ds == Lookup(reg, id) IN
  IF "t" \in DOMAIN ds THEN Rejected("correlation", 404, "Dataset not found")
  ELSE IF ~Truthy(p1) \/ ~Truthy(p2) THEN Rejected("correlation", 400, "param1 and param2 required")
  ELSE IF ~Includes(ds.parameters, p1) \/ ~Includes(ds.parameters, p2)
    THEN Rejected("correlation", 400, "Parameters must be in")
  ELSE LET series == filterByDateRange(ds.data, from, to)
           x == Extract(series, p1)
           y == Extract(series, p2)
       IN  IF Len(x) = 0 \/ Len(y) = 0
           THEN Reply("correlation", 400, [error |-> "No data in range"], {"filter", "extract"})
           ELSE LET r == pearson(x, y)
                IN  Reply("correlation", 200,
                          [id |-> ds.id, param1 |-> p1, param2 |-> p2,
                           r |-> Json(NumberToFixed(r)),
                           interpretation |-> Interpretation(r)],
                          {"filter", "extract", "stats"})

\* GET /api/datasets/:id/export
ExportResponse(reg, id, param) ==
  LET ds == Lookup(reg, id) IN
  IF "t" \in DOMAIN ds THEN Rejected("export", 404, "Dataset not found")
  ELSE IF ~Truthy(param) THEN Rejected("export", 400, "param query required")
  ELSE IF ~Includes(ds.parameters, param) THEN Rejected("export", 400, "Parameter not available")
  ELSE Reply("export", 200,
             [header |-> <<Str("date"), param>>,
              rows |-> [i \in 1..Len(ds.data) |-> <<ds.data[i].date, Field(ds.data[i], param)>>]],
             {"extract"})

\* POST /api/datasets/upload: the payload check and the registry after the write
ValidPayload(payload) ==
  Truthy(payload.id) /\ Truthy(payload.parameters) /\ Truthy(payload.data)

\* a plausible slip: the registry is rebuilt around the uploaded entry
UploadStoreAlone(reg, payload) ==
  [k \in {payload.id.s} |->
     [id |-> payload.id, name |-> OrElse(payload.name, payload.id),
      description |-> OrElse(payload.description, Str("")),
      parameters |-> payload.parameters.e, data |-> payload.data.e]]

UploadStore(reg, payload) ==
  [k \in DOMAIN reg \cup {payload.id.s} |->
     IF k = payload.id.s
     THEN [id |-> payload.id, name |-> OrElse(payload.name, payload.id),
           description |-> OrElse(payload.description, Str("")),
           parameters |-> payload.parameters.e, data |-> payload.data.e]
     ELSE reg[k]]

UploadResponse(payload) ==
  IF ~ValidPayload(payload) THEN Rejected("upload", 400, "Invalid payload")
  ELSE Reply("upload", 200, [ok |-> TRUE, id |-> payload.id], {})

-----------------------------------------------------------------------------
(* The running service: requests arrive in any order; each GET handler and  *)
(* the upload handler run to completion; an upload under token verification *)
(* waits in `pending` from the await in authMiddleware until Firebase       *)
(* answers.                                                                 *)

\* uploads that may await token verification at once
MaxPending == 1

\* "u1" is unknown until it is uploaded; "temperature" is declared by the
\* synthetic dataset only, "b" by the uploaded one only
ReqIds == {"marine_weather", "u1"}
ReqParams == {Undefined, Str("temperature"), Str("b")}
\* no bounds, or a range that starts the day after the last synthetic record
ReqRanges == {<<Undefined, Undefined>>, <<DateStr(GenDays + 1), Undefined>>}
ReqWindows == {Undefined, [t |-> "digits", k |-> 0]}
AuthHeaders == {Undefined, Str("Bearer"), [t |-> "bearer", token |-> Str("tok")]}

\* a series whose last record, dated after the synthetic ones, lacks field b
UploadSeries ==
  <<[date |-> DateStr(1), v |-> [p \in {"a", "b"} |-> Num(IF p = "a" THEN 1 ELSE 2)]],
    [date |-> DateStr(GenDays + 1), v |-> [p \in {"a"} |-> Num(2)]]>>

FullPayload(d) ==
  [id |-> Str("u1"), name |-> Undefined, description |-> Undefined,
   parameters |-> Arr(<<Str("a"), Str("b")>>), data |-> Arr(d)]

\* two complete payloads (one with an empty data array) and one payload for
\* each required field left out
Payloads ==
  {FullPayload(<<>>), FullPayload(UploadSeries),
   [FullPayload(UploadSeries) EXCEPT !.id = Undefined],
   [FullPayload(UploadSeries) EXCEPT !.parameters = Undefined],
   [FullPayload(UploadSeries) EXCEPT !.data = Undefined]}

NoRegistry == [k \in {} |-> Undefined]

\* no query handler is between its dataset lookup and its response
NoFrame == [pc |-> "idle", op |-> "none", req |-> Undefined, seen |-> NoRegistry]

Init ==
  /\ firebaseAuthEnabled \in BOOLEAN
  /\ \E n1, n2 \in Noises :
       datasets = [k \in {"marine_weather", "chemical_oceanographic"} |->
                     IF k = "marine_weather" THEN MarineDataset(n1) ELSE ChemDataset(n2)]
  /\ pending = {}
  /\ resp = NoResponse
  /\ call = Undefined
  /\ ret = Undefined
  /\ frame = NoFrame

Others == <<firebaseAuthEnabled, datasets, pending, call, ret, frame>>

List ==
  /\ resp' = For([op |-> "list"], ListResponse(datasets))
  /\ UNCHANGED Others

Data ==
  \E id \in ReqIds, param \in ReqParams, range \in ReqRanges :
    /\ resp' = For([id |-> id, param |-> param, from |-> range[1], to |-> range[2]],
                   DataResponse(datasets, id, param, range[1], range[2]))
    /\ UNCHANGED Others

Summary ==
  \E id \in ReqIds, param \in ReqParams, range \in ReqRanges :
    /\ resp' = For([id |-> id, param |-> param, from |-> range[1], to |-> range[2]],
                   SummaryResponse(datasets, id, param, range[1], range[2]))
    /\ UNCHANGED Others

Trends ==
  \E id \in ReqIds, param \in ReqParams, window \in ReqWindows, range \in ReqRanges :
    /\ resp' = For([id |-> id, param |-> param, window |-> window,
                    from |-> range[1], to |-> range[2]],
                   TrendsResponse(datasets, id, param, window, range[1], range[2]))
    /\ UNCHANGED Others

Correlation ==
  \E id \in ReqIds, p1, p2 \in ReqParams, range \in ReqRanges :
    /\ resp' = For([id |-> id, param1 |-> p1, param2 |-> p2,
                    from |-> range[1], to |-> range[2]],
                   CorrelationResponse(datasets, id, p1, p2, range[1], range[2]))
    /\ UNCHANGED Others

Export ==
  \E id \in ReqIds, param \in ReqParams :
    /\ resp' = For([id |-> id, param |-> param], ExportResponse(datasets, id, param))
    /\ UNCHANGED Others

\* the route handler of POST /api/datasets/upload, after authMiddleware's next()
UploadHandler(payload) ==
  /\ datasets' = IF ValidPayload(payload) THEN UploadStore(datasets, payload) ELSE datasets
  /\ resp' = For(payload, UploadResponse(payload))

\* authHeader.split(" ")[1]
TokenOf(header) == IF header.t = "bearer" THEN header.token ELSE Undefined

\* POST /api/datasets/upload up to the handler's end or authMiddleware's await
Upload ==
  \E payload \in Payloads, header \in AuthHeaders :
    /\ IF ~firebaseAuthEnabled
       THEN UploadHandler(payload) /\ UNCHANGED pending
       ELSE IF ~Truthy(TokenOf(header))
       THEN /\ resp' = For(payload, Rejected("upload", 401, "Missing auth token"))
            /\ UNCHANGED <<datasets, pending>>
       ELSE /\ Cardinality(pending) < MaxPending
            /\ pending' = pending \cup {payload}
            /\ UNCHANGED <<datasets, resp>>
    /\ UNCHANGED <<firebaseAuthEnabled, call, ret, frame>>

\* verifyIdToken resolves: next() runs the handler
VerifyResolve ==
  \E payload \in pending :
    /\ pending' = pending \ {payload}
    /\ UploadHandler(payload)
    /\ UNCHANGED <<firebaseAuthEnabled, call, ret, frame>>

\* verifyIdToken rejects: 401
VerifyReject ==
  \E payload \in pending :
    /\ pending' = pending \ {payload}
    /\ resp' = For(payload, Rejected("upload", 401, "Invalid token"))
    /\ UNCHANGED <<firebaseAuthEnabled, datasets, call, ret, frame>>

Next ==
  \/ List
  \/ Data
  \/ Summary
  \/ Trends
  \/ Correlation
  \/ Export
  \/ Upload
  \/ VerifyResolve
  \/ VerifyReject

Spec == Init /\ [][Next]_vars

-----------------------------------------------------------------------------
(* The event loop.  Node runs one handler at a time and gives the loop back *)
(* only when the handler returns or reaches an await.  Each query handler   *)
(* is split here into its two halves, the read of the registry             *)
(* (`const ds = datasets[id]`, or Object.values(datasets) for the list)     *)
(* and the rest of the handler, which works on what was read; `frame`       *)
(* holds the handler between the two.  Another handler, or the              *)
(* continuation of a suspended upload, starts only when the stack is empty. *)

\* the program points at which a handler suspends: the one await of the
\* source, in authMiddleware
AwaitPointsWithLookup == {"verifyIdToken", "lookup"}

AwaitPoints == {"verifyIdToken"}

\* no handler is on the call stack
StackEmpty == frame.pc = "idle" \/ frame.pc \in AwaitPoints

\* what `const ds = datasets[id]` leaves in the handler's hands
Seen(reg, id) == [k \in DOMAIN reg \cap {id} |-> reg[k]]

\* the requests of the event-loop specification: the uploaded dataset u1 and
\* a synthetic one, one parameter each route
LoopIds == {"marine_weather", "u1"}
LoopParam == Str("b")

\* the response of the query route op to the request req over the registry reg
RouteResponse(op, reg, req) ==
  CASE op = "list" -> ListResponse(reg)
    [] op = "data" -> DataResponse(reg, req.id, req.param, req.from, req.to)
    [] op = "summary" -> SummaryResponse(reg, req.id, req.param, req.from, req.to)
    [] op = "trends" ->
         TrendsResponse(reg, req.id, req.param, req.window, req.from, req.to)
    [] op = "correlation" ->
         CorrelationResponse(reg, req.id, req.param1, req.param2, req.from, req.to)
    [] op = "export" -> ExportResponse(reg, req.id, req.param)

ListLookup ==
  /\ frame.pc = "idle"
  /\ frame' = [pc |-> "lookup", op |-> "list", req |-> [op |-> "list"], seen |-> datasets]
  /\ UNCHANGED <<firebaseAuthEnabled, datasets, pending, resp, call, ret>>

DataLookup ==
  \E id \in LoopIds :
    /\ frame.pc = "idle"
    /\ frame' = [pc |-> "lookup", op |-> "data", seen |-> Seen(datasets, id),
                 req |-> [id |-> id, param |-> LoopParam,
                          from |-> Undefined, to |-> Undefined]]
    /\ UNCHANGED <<firebaseAuthEnabled, datasets, pending, resp, call, ret>>

SummaryLookup ==
  \E id \in LoopIds :
    /\ frame.pc = "idle"
    /\ frame' = [pc |-> "lookup", op |-> "summary", seen |-> Seen(datasets, id),
                 req |-> [id |-> id, param |-> LoopParam,
                          from |-> Undefined, to |-> Undefined]]
    /\ UNCHANGED <<firebaseAuthEnabled, datasets, pending, resp, call, ret>>

TrendsLookup ==
  \E id \in LoopIds :
    /\ frame.pc = "idle"
    /\ frame' = [pc |-> "lookup", op |-> "trends", seen |-> Seen(datasets, id),
                 req |-> [id |-> id, param |-> LoopParam, window |-> Undefined,
                          from |-> Undefined, to |-> Undefined]]
    /\ UNCHANGED <<firebaseAuthEnabled, datasets, pending, resp, call, ret>>

CorrelationLookup ==
  \E id \in LoopIds :
    /\ frame.pc = "idle"
    /\ frame' = [pc |-> "lookup", op |-> "correlation", seen |-> Seen(datasets, id),
                 req |-> [id |-> id, param1 |-> Str("a"), param2 |-> LoopParam,
                          from |-> Undefined, to |-> Undefined]]
    /\ UNCHANGED <<firebaseAuthEnabled, datasets, pending, resp, call, ret>>

ExportLookup ==
  \E id \in LoopIds :
    /\ frame.pc = "idle"
    /\ frame' = [pc |-> "lookup", op |-> "export", seen |-> Seen(datasets, id),
                 req |-> [id |-> id, param |-> LoopParam]]
    /\ UNCHANGED <<firebaseAuthEnabled, datasets, pending, resp, call, ret>>

\* the rest of a query handler: it works on what the lookup read
QueryRespond ==
  /\ frame.pc = "lookup"
  /\ resp' = For(frame.req, RouteResponse(frame.op, frame.seen, frame.req))
  /\ frame' = NoFrame
  /\ UNCHANGED <<firebaseAuthEnabled, datasets, pending, call, ret>>

\* POST /api/datasets/upload arrives
UploadTask == StackEmpty /\ Upload

\* the continuations of authMiddleware after its await
VerifyResolveTask == StackEmpty /\ VerifyResolve

VerifyRejectTask == StackEmpty /\ VerifyReject

NextLoop ==
  \/ ListLookup
  \/ DataLookup
  \/ SummaryLookup
  \/ TrendsLookup
  \/ CorrelationLookup
  \/ ExportLookup
  \/ QueryRespond
  \/ UploadTask
  \/ VerifyResolveTask
  \/ VerifyRejectTask

SpecLoop == Init /\ [][NextLoop]_vars

-----------------------------------------------------------------------------
(* One dataset, every record varied: the summary and correlation routes on  *)
(* each series of up to MaxLen records whose two parameters take every      *)
(* value in 0..MaxVal.  The records are listed with parameter a ascending   *)
(* (the sums, extrema and sorted copy the routes compute do not depend on   *)
(* the order of the records); parameter b takes every order.                *)

StatDataset(xs, ys) ==
  [id |-> Str("u1"), name |-> Str("u1"), description |-> Str(""),
   parameters |-> <<Str("a"), Str("b")>>,
   data |-> [i \in 1..Len(xs) |->
               [date |-> DateStr(i),
                v |-> [p \in {"a", "b"} |-> Num(IF p = "a" THEN xs[i] ELSE ys[i])]]]]

StatParams == {Str("a"), Str("b")}

InitStats ==
  /\ firebaseAuthEnabled = FALSE
  /\ \E n \in 1..MaxLen : \E xs, ys \in [1..n -> 0..MaxVal] :
       /\ \A i \in 1..(n - 1) : xs[i] <= xs[i + 1]
       /\ datasets = [k \in {"u1"} |-> StatDataset(xs, ys)]
  /\ pending = {}
  /\ resp = NoResponse
  /\ call = Undefined
  /\ ret = Undefined
  /\ frame = NoFrame

StatSummary ==
  \E param \in StatParams :
    /\ resp' = For([id |-> "u1", param |-> param, from |-> Undefined, to |-> Undefined],
                   SummaryResponse(datasets, "u1", param, Undefined, Undefined))
    /\ UNCHANGED Others

StatCorrelation ==
  \E p1, p2 \in StatParams :
    /\ resp' = For([id |-> "u1", param1 |-> p1, param2 |-> p2,
                    from |-> Undefined, to |-> Undefined],
                   CorrelationResponse(datasets, "u1", p1, p2, Undefined, Undefined))
    /\ UNCHANGED Others

NextStats == StatSummary \/ StatCorrelation

SpecStats == InitStats /\ [][NextStats]_vars

-----------------------------------------------------------------------------
(* The engine functions on their own: movingAverage and filterByDateRange   *)
(* applied to every input within the bounds.                                *)

\* latest calendar day of a record or of a bound
MaxDay == 3

RECURSIVE SeqsUpTo(_, _)
\* the sequences over S of length at most n
SeqsUpTo(S, n) ==
  IF n = 0 THEN {<<>>}
  ELSE SeqsUpTo(S, n - 1) \cup [1..n -> S]

InitCall(calls) ==
  /\ firebaseAuthEnabled = FALSE
  /\ datasets = NoRegistry
  /\ pending = {}
  /\ resp = NoResponse
  /\ call \in calls
  /\ ret = Undefined
  /\ frame = NoFrame

Returns(value) ==
  /\ ret = Undefined
  /\ ret' = value
  /\ UNCHANGED <<firebaseAuthEnabled, datasets, pending, resp, call, frame>>

MovingAverageCalls ==
  {[fn |-> "movingAverage", arr |-> [i \in 1..Len(a) |-> Num(a[i])], windowSize |-> Num(w)] :
     a \in SeqsUpTo((-1)..MaxVal, ArrLen), w \in 1..MaxWin}

CallMovingAverage ==
  /\ call.fn = "movingAverage"
  /\ Returns(movingAverage(call.arr, call.windowSize))

SpecMovingAverage == InitCall(MovingAverageCalls) /\ [][CallMovingAverage]_vars

\* a bound of the query string: not given, empty, or a calendar day
DateBounds == {Undefined, Str("")} \cup {DateStr(d) : d \in 1..MaxDay}

FilterCalls ==
  {[fn |-> "filterByDateRange",
    series |-> [i \in 1..Len(days) |-> [date |-> DateStr(days[i]), v |-> NoRegistry]],
    from |-> from, to |-> to] :
     days \in SeqsUpTo(1..MaxDay, ArrLen), from \in DateBounds, to \in DateBounds}

CallFilterByDateRange ==
  /\ call.fn = "filterByDateRange"
  /\ Returns(Arr(filterByDateRange(call.series, call.from, call.to)))

SpecFilter == InitCall(FilterCalls) /\ [][CallFilterByDateRange]_vars

-----------------------------------------------------------------------------
(* Properties *)

RECURSIVE WinSum(_, _, _)
\* arr[lo] + ... + arr[hi] for an array of integers
WinSum(arr, lo, hi) == IF lo > hi THEN 0 ELSE arr[lo].n + WinSum(arr, lo + 1, hi)

\* first index (1-based) of the trailing window of size w that ends at i
WinLo(i, w) == Max(1, i - w + 1)

Returned == ret.t = "array"

C2_MovingAverageIsNumber ==
  (resp.op = "trends" /\ resp.status = 200) =>
    \A i \in 1..Len(resp.body.data) : resp.body.data[i].moving_average.t = "num"

\* the record's day lies within the bounds that are given
InRange(s, from, to) ==
  /\ from.t = "date" => from.day <= s.date.day
  /\ to.t = "date" => s.date.day <= to.day

\* C3: filterByDateRange returns exactly the records whose date lies within
\* the given bounds, both inclusive, in their original order; with no bound
\* it returns the input's contents in the input's order.
C3_FilterInclusive ==
  Returned =>
    /\ ret.e = SelectSeq(call.series, LAMBDA s : InRange(s, call.from, call.to))
    /\ (~Truthy(call.from) /\ ~Truthy(call.to)) => ret.e = call.series

\* C3 witness: both bounds given, some records dropped, and a record dated on
\* each bound kept
C3_Witness ==
  /\ Returned
  /\ call.from.t = "date" /\ call.to.t = "date"
  /\ Len(ret.e) < Len(call.series)
  /\ \E i, j \in 1..Len(ret.e) : ret.e[i].date = call.from /\ ret.e[j].date = call.to

CorrelationDone == resp.op = "correlation" /\ resp.status = 200

\* the sequence a request extracts for a parameter of dataset u1, unfiltered
Column(param) == Extract(datasets["u1"].data, param)

ZeroVariance(x) == \A i, j \in 1..Len(x) : x[i] = x[j]

Labels ==
  {"Strong positive correlation", "Moderate positive correlation",
   "Strong negative correlation", "Moderate negative correlation",
   "Weak or no correlation"}

\* C5: the label of a correlation response is the one the table gives for the
\* raw r: r >= 0.7 strong positive, 0.4 <= r < 0.7 moderate positive,
\* r <= -0.7 strong negative, -0.7 < r <= -0.4 moderate negative, any other r
\* weak or none; no other label occurs.
C5_LabelTable ==
  CorrelationDone =>
    LET r == pearson(Column(resp.req.param1), Column(resp.req.param2))
        label == resp.body.interpretation
        sp == GeConst(r, 7, 10)
        mp == GeConst(r, 4, 10) /\ ~GeConst(r, 7, 10)
        sn == LeConst(r, -7, 10)
        mn == LeConst(r, -4, 10) /\ ~LeConst(r, -7, 10)
    IN  /\ label \in Labels
        /\ sp => label = "Strong positive correlation"
        /\ mp => label = "Moderate positive correlation"
        /\ sn => label = "Strong negative correlation"
        /\ mn => label = "Moderate negative correlation"
        /\ ~(sp \/ mp \/ sn \/ mn) => label = "Weak or no correlation"

\* C5 witness: an r at or below -0.7, labelled strong negative
C5_Witness ==
  /\ CorrelationDone
  /\ resp.body.r.n < 0
  /\ resp.body.interpretation = "Strong negative correlation"

\* the request reached the engine: it was not rejected by the route's checks
Admitted == resp.ran # {}

\* the values a request leaves for a parameter after filtering and extraction
ValidValues(param) ==
  Valid(Extract(filterByDateRange(datasets[resp.req.id].data, resp.req.from, resp.req.to),
                param))

NoDataInRange == resp.status = 400 /\ resp.body = [error |-> "No data in range"]

\* C6 as stated: when filtering and extraction leave no valid value, summary
\* and correlation answer NoDataInRange and compute no statistic.
C6_NoDataRefused ==
  /\ (resp.op = "summary" /\ Admitted /\ ValidValues(resp.req.param) = <<>>)
       => NoDataInRange
  /\ (resp.op = "correlation" /\ Admitted
        /\ (ValidValues(resp.req.param1) = <<>> \/ ValidValues(resp.req.param2) = <<>>))
       => NoDataInRange

Queries == {"data", "summary", "trends", "correlation", "export"}

Declared(param) == Includes(datasets[resp.req.id].parameters, param)

\* the request names an unknown dataset, omits a required parameter or names
\* a parameter the dataset does not declare
InvalidRequest ==
  \/ resp.req.id \notin DOMAIN datasets
  \/ resp.op \in {"summary", "trends", "export"} /\ ~Truthy(resp.req.param)
  \/ resp.op = "correlation" /\ (~Truthy(resp.req.param1) \/ ~Truthy(resp.req.param2))
  \/ resp.op \in {"data", "summary", "trends", "export"}
       /\ Truthy(resp.req.param) /\ ~Declared(resp.req.param)
  \/ resp.op = "correlation"
       /\ (  (Truthy(resp.req.param1) /\ ~Declared(resp.req.param1))
          \/ (Truthy(resp.req.param2) /\ ~Declared(resp.req.param2)))

\* C7 as stated: every query that is invalid in one of these ways is rejected
\* with an error before any filtering, extraction or statistic.
C7_InvalidRejected ==
  (resp.op \in Queries /\ InvalidRequest) =>
    (resp.status \in {400, 404} /\ resp.ran = {})

\* the sorted copy's middle: at most half of the values lie on either side
IsMedian(values, med) ==
  /\ 2 * Cardinality({i \in 1..Len(values) : Lt(values[i], med)}) <= Len(values)
  /\ 2 * Cardinality({i \in 1..Len(values) : Lt(med, values[i])}) <= Len(values)
  /\ \/ \E i \in 1..Len(values) : values[i] = med
     \/ Len(values) % 2 = 0
          /\ \E i, j \in 1..Len(values) : i # j /\ med = DivInt(Add(values[i], values[j]), 2)

SummaryDone == resp.op = "summary" /\ resp.status = 200

\* C8: a summary satisfies min <= median <= max and min <= mean <= max, with
\* the median the middle of the sorted values (the mean of the two middle
\* ones for an even count).
C8_SummaryOrder ==
  SummaryDone =>
    LET sm == resp.body.summary
    IN  /\ Le(sm.min, sm.median) /\ Le(sm.median, sm.max)
        /\ Le(sm.min, sm.mean) /\ Le(sm.mean, sm.max)
        /\ IsMedian(Column(resp.req.param), sm.median)

\* C8 witness: a summary of three unsorted values whose extrema differ
C8_Witness ==
  /\ SummaryDone
  /\ resp.body.summary.count = 3
  /\ Lt(resp.body.summary.min, resp.body.summary.max)
  /\ Lt(Column(resp.req.param)[2], Column(resp.req.param)[1])

\* C9 as stated: after any accepted uploads, listing succeeds and gives every
\* registered dataset's id, parameters and date range (first and last date).
C9_ListSucceeds ==
  resp.op = "list" =>
    /\ resp.status = 200
    /\ DOMAIN resp.body.datasets = DOMAIN datasets
    /\ \A k \in DOMAIN datasets :
         LET meta == resp.body.datasets[k]
             d == datasets[k]
         IN  /\ meta.id = d.id
             /\ meta.parameters = d.parameters
             /\ meta.range = [start |-> d.data[1].date, end |-> d.data[Len(d.data)].date]

\* C10: the registry changes only in a step that answers an upload with
\* success, and that step sets the entry of payload.id and no other; every
\* query and every rejected upload leaves the registry as it was.
C10_RegistryFrame ==
  [][ /\ datasets' # datasets =>
           /\ resp'.op = "upload" /\ resp'.status = 200
           /\ DOMAIN datasets' = DOMAIN datasets \cup {resp'.req.id.s}
           /\ datasets'[resp'.req.id.s].data = resp'.req.data.e
           /\ \A k \in DOMAIN datasets : k # resp'.req.id.s => datasets'[k] = datasets[k]
      /\ (resp' # resp /\ ~(resp'.op = "upload" /\ resp'.status = 200))
           => datasets' = datasets
    ]_vars

\* C10 witness: an accepted upload has written the entry of u1 and the
\* synthetic datasets are still registered
C10_Witness ==
  /\ resp.op = "upload" /\ resp.status = 200
  /\ DOMAIN datasets = {"marine_weather", "chemical_oceanographic", "u1"}
  /\ datasets["u1"].data = <<>>
  /\ datasets["marine_weather"].parameters[1] = Str("temperature")

\* C11: under the event loop, between a query's dataset lookup and its
\* response no step changes the registry, so the response is the route's
\* response over the registry as it stands when the response is produced;
\* the registry changes only with an empty stack, and when token verification
\* is enabled the write happens in the step that resumes the upload after
\* its await, never before.
C11_QuerySnapshot ==
  [][ /\ frame.pc = "lookup" => datasets' = datasets
      /\ (frame.pc = "lookup" /\ frame'.pc = "idle")
           => resp' = For(frame.req, RouteResponse(frame.op, datasets', frame.req))
      /\ datasets' # datasets =>
           /\ frame.pc = "idle" /\ frame'.pc = "idle"
           /\ firebaseAuthEnabled =>
                (resp'.req \in pending /\ pending' = pending \ {resp'.req})
    ]_vars

\* C11 witness: an accepted upload has written the entry of u1, a summary
\* query of u1 has read that entry and not yet answered, and another upload
\* that would replace the entry is suspended in token verification
C11_Witness ==
  /\ firebaseAuthEnabled
  /\ resp.op = "upload" /\ resp.status = 200
  /\ frame.pc = "lookup" /\ frame.op = "summary" /\ frame.req.id = "u1"
  /\ "u1" \in DOMAIN frame.seen
  /\ \E p \in pending : ValidPayload(p) /\ p.data.e # frame.seen["u1"].data

====
